---- MODULE Spec2Model ----
(***************************************************************************)
(* The COVID-19 dashboard script covid_dashboard.py: three cached loaders  *)
(* (load_covid_data, load_vaccine_data, load_country_data) and the render  *)
(* pass that the hosting framework re-runs top to bottom on every          *)
(* interaction.                                                            *)
(*                                                                         *)
(* Data representation                                                     *)
(*   - a JSON object is a function from its keys (strings) to values; a    *)
(*     missing key is a key outside DOMAIN;                                *)
(*   - a JSON date->count object is a sequence of <<key, count>> pairs in  *)
(*     key-insertion order (Python dicts keep it);                         *)
(*   - an upstream date key "m/d/yy" is the triple <<m, d, yy>>;           *)
(*   - a table is a sequence of rows plus the set of its column names;     *)
(*   - a cell that may hold None is <<>> (None) or <<v>>.                  *)
(***************************************************************************)
EXTENDS Integers, Sequences, FiniteSets, TLC

VARIABLES
    now,            \* wall clock, seconds
    cache,          \* st.cache_data store: key -> [at, value]
    served,         \* key -> time of the latest call that returned a table
    passes,         \* number of render passes started
    pc,             \* position of the script in the current pass
    calls,          \* loader calls of the current pass: [fn, args, hit, err]
    http,           \* HTTP requests of the current pass: [kind, country, status]
    snapshot,       \* the table of line 67 (load_country_data)
    country_input,  \* line 90
    js_history,     \* lines 17/28: the history body parsed in this pass, <<>> if none
    df,             \* line 94: the history table of this pass
    selected_year,  \* line 98: <<>> (None) or <<year>>
    filtered,       \* line 99
    cards,          \* lines 107-109: the three metric cards
    y_cols,         \* line 112: the lines of the trend chart
    js_vaccine,     \* line 47: the vaccine body parsed in this pass, <<>> if none
    df_vaccine,     \* line 124
    vaccine_view,   \* lines 125-140: what the vaccine section shows
    payload,        \* loader study: the cases/deaths/recovered object M
    vax_payload,    \* loader study: the vaccine response body
    out_global,     \* loader study: load_covid_data(None) on M
    out_country,    \* loader study: load_covid_data(c) on {"timeline": M}
    out_vaccine,    \* loader study: load_vaccine_data(c) on vax_payload
    bpc             \* loader study: position

vars == <<now, cache, served, passes, pc, calls, http, snapshot, country_input, js_history,
          df, selected_year, filtered, cards, y_cols, js_vaccine, df_vaccine,
          vaccine_view,
          payload, vax_payload, out_global, out_country, out_vaccine, bpc>>

renderVars == <<now, cache, served, passes, pc, calls, http, snapshot, country_input,
                js_history, df, selected_year, filtered, cards, y_cols, js_vaccine,
                df_vaccine, vaccine_view>>

studyVars == <<payload, vax_payload, out_global, out_country, out_vaccine, bpc>>

----------------------------------------------------------------------------
(* Bounds *)

MaxLen == 2         \* longest date->count object / vaccine timeline
MaxPasses == 3      \* render passes (script reruns) explored
MaxTicks == 2       \* clock advances explored
MaxCountries == 2   \* countries holding cache entries at one time

(* Program constants *)

TTL == 3600
YearMin == 2020
YearMax == 2023

CountryList == <<"USA", "India", "Brazil", "Germany", "France", "UK", "China", "Japan">>

NoneArg == "None"       \* Python None as a loader argument
NoneCell == <<>>        \* Python None / NaN in a cell

----------------------------------------------------------------------------
(* Generic helpers *)

Range(s) == {s[i] : i \in 1..Len(s)}

MaxOf(S) == CHOOSE x \in S : \A y \in S : y <= x

----------------------------------------------------------------------------
(* Results of a loader call: a table, or the exception that left it *)

Table(rows, cols) == [err |-> "ok", rows |-> rows, cols |-> cols]

Raise(e) == [err |-> e, rows |-> <<>>, cols |-> {}]

NoTable == Raise("unset")

(* requests.get: the answer the network gives to one GET.  net = FALSE is a *)
(* transport failure (requests.get raises ConnectionError).                 *)
Response(status, body) == [net |-> TRUE, status |-> status, body |-> body]

NetworkFailure(body) == [net |-> FALSE, status |-> 0, body |-> body]

(* resp.raise_for_status(): raises HTTPError for a 4xx or 5xx status *)
raise_for_status(resp) == resp.status >= 400 /\ resp.status < 600

(* list(d.keys()), list(d.values()) of a date->count object *)
DictKeys(d) == [i \in 1..Len(d) |-> d[i][1]]

DictValues(d) == [i \in 1..Len(d) |-> d[i][2]]

(* pd.to_datetime on an "m/d/yy" key: %y maps 00-68 to 20yy, 69-99 to 19yy *)
to_datetime(k) ==
    [year  |-> IF k[3] <= 68 THEN 2000 + k[3] ELSE 1900 + k[3],
     month |-> k[1],
     day   |-> k[2]]

(* variant: the upper end of the range is not enforced *)
InYearRange_NoUpper(year) == year >= YearMin

(* the year filter of lines 38 and 54 *)
InYearRange(year) == year >= YearMin /\ year <= YearMax

YearFilter(rows) == SelectSeq(rows, LAMBDA r : InYearRange(r.year))

(* pd.DataFrame({...}) of lines 18-23 / 30-35 followed by lines 36-37:     *)
(* the arrays must have one length (else ValueError); a None column is     *)
(* broadcast to every row.                                                 *)
HistoryFrame(date, confirmed, deaths, hasRecovered, recovered) ==
    IF Len(deaths) # Len(date) \/ (hasRecovered /\ Len(recovered) # Len(date))
    THEN Raise("ValueError")
    ELSE Table([i \in 1..Len(date) |->
                   [date      |-> to_datetime(date[i]),
                    confirmed |-> confirmed[i],
                    deaths    |-> deaths[i],
                    recovered |-> IF hasRecovered THEN <<recovered[i]>> ELSE NoneCell,
                    year      |-> to_datetime(date[i]).year]],
               {"date", "confirmed", "deaths", "recovered", "year"})

(* lines 38-39 / 54-55 applied to a frame *)
FilterFrame(t) == IF t.err = "ok" THEN Table(YearFilter(t.rows), t.cols) ELSE t

(* lines 14-23: the global branch, js is the parsed body *)
GlobalFrame(js) ==
    IF "cases" \notin DOMAIN js \/ "deaths" \notin DOMAIN js
    THEN Raise("KeyError")
    ELSE HistoryFrame(DictKeys(js["cases"]), DictValues(js["cases"]),
                      DictValues(js["deaths"]),
                      "recovered" \in DOMAIN js,
                      IF "recovered" \in DOMAIN js
                      THEN DictValues(js["recovered"]) ELSE <<>>)

(* variant: the country branch reads timeline["recovered"] unguarded *)
CountryFrame_Unguarded(js) ==
    LET timeline == IF "timeline" \in DOMAIN js THEN js["timeline"] ELSE <<>>
    IN  IF {"cases", "deaths", "recovered"} \subseteq DOMAIN timeline
        THEN HistoryFrame(DictKeys(timeline["cases"]), DictValues(timeline["cases"]),
                          DictValues(timeline["deaths"]), TRUE,
                          DictValues(timeline["recovered"]))
        ELSE Raise("KeyError")

(* lines 25-35: the country branch; js.get("timeline", {}) *)
CountryFrame(js) ==
    LET timeline == IF "timeline" \in DOMAIN js THEN js["timeline"] ELSE <<>>
    IN  IF "cases" \notin DOMAIN timeline \/ "deaths" \notin DOMAIN timeline
        THEN Raise("KeyError")
        ELSE HistoryFrame(DictKeys(timeline["cases"]), DictValues(timeline["cases"]),
                          DictValues(timeline["deaths"]),
                          "recovered" \in DOMAIN timeline,
                          IF "recovered" \in DOMAIN timeline
                          THEN DictValues(timeline["recovered"]) ELSE <<>>)

(* the strings s with s.lower() == "global": each letter in either case *)
GlobalSpellings ==
    {c1 \o c2 \o c3 \o c4 \o c5 \o c6 :
        c1 \in {"g", "G"}, c2 \in {"l", "L"}, c3 \in {"o", "O"},
        c4 \in {"b", "B"}, c5 \in {"a", "A"}, c6 \in {"l", "L"}}

(* line 13: country is None or country.lower() == "global" *)
IsGlobalArg(country) == country = NoneArg \/ country \in GlobalSpellings

(* the GET that each loader issues: lines 14/25, 44, 60 *)
HistoryRequest(country) ==
    IF IsGlobalArg(country)
    THEN [kind |-> "global-history", country |-> NoneArg]
    ELSE [kind |-> "country-history", country |-> country]

VaccineRequest(country) == [kind |-> "country-vaccine", country |-> country]

SnapshotRequest == [kind |-> "country-snapshot-list", country |-> NoneArg]

(* lines 11-39: the body of load_covid_data, given the network's answer *)
load_covid_data(country, resp) ==
    IF ~resp.net THEN Raise("ConnectionError")
    ELSE IF raise_for_status(resp) THEN Raise("HTTPError")
    ELSE IF IsGlobalArg(country) THEN FilterFrame(GlobalFrame(resp.body))
         ELSE FilterFrame(CountryFrame(resp.body))

(* lines 51-53: pd.DataFrame(list of records), date parsed, year derived *)
VaccineFrame(data) ==
    Table([i \in 1..Len(data) |->
              [date  |-> to_datetime(data[i].date),
               total |-> data[i].total,
               year  |-> to_datetime(data[i].date).year]],
          {"date", "total", "year"})

(* lines 42-55: the body of load_vaccine_data *)
load_vaccine_data(country, resp) ==
    IF ~resp.net THEN Raise("ConnectionError")
    ELSE IF raise_for_status(resp) THEN Raise("HTTPError")
    ELSE LET js == resp.body
             data == IF "timeline" \in DOMAIN js THEN js["timeline"] ELSE <<>>
         IN  IF data = <<>> THEN Table(<<>>, {"date", "total"})
             ELSE FilterFrame(VaccineFrame(data))

(* lines 59-65: the body of load_country_data.  There is no                *)
(* raise_for_status here: whatever body arrives is parsed and used.  A     *)
(* body that is a JSON object of scalars makes pd.DataFrame raise          *)
(* ValueError, an empty list has no "countryInfo" column (KeyError).       *)
load_country_data(resp) ==
    IF ~resp.net THEN Raise("ConnectionError")
    ELSE LET data == resp.body
         IN  IF ~data.list THEN Raise("ValueError")
             ELSE IF data.items = <<>> THEN Raise("KeyError")
             ELSE Table([i \in 1..Len(data.items) |->
                            [country   |-> data.items[i].country,
                             cases     |-> data.items[i].cases,
                             deaths    |-> data.items[i].deaths,
                             recovered |-> data.items[i].recovered,
                             lat       |-> IF "lat" \in DOMAIN data.items[i].countryInfo
                                           THEN <<data.items[i].countryInfo["lat"]>>
                                           ELSE NoneCell,
                             long      |-> IF "long" \in DOMAIN data.items[i].countryInfo
                                           THEN <<data.items[i].countryInfo["long"]>>
                                           ELSE NoneCell]],
                        {"country", "cases", "deaths", "recovered", "lat", "long"})

----------------------------------------------------------------------------
(* Upstream payloads explored *)

HistoryDateKeys == {<<12, 31, 19>>, <<1, 22, 20>>, <<1, 1, 24>>}

VaccineDateKeys == {<<12, 31, 19>>, <<1, 1, 20>>, <<12, 31, 23>>, <<1, 1, 24>>}

Counts == {0, 1}

SeqsUpTo(S, n) == UNION {[1..k -> S] : k \in 0..n}

DistinctKeys(d) == \A i, j \in 1..Len(d) : d[i][1] = d[j][1] => i = j

(* every date->count object over the keys, in every key order *)
DateCountObjects ==
    {d \in SeqsUpTo(HistoryDateKeys \X Counts, MaxLen) : DistinctKeys(d)}

(* every object holding any of "cases", "deaths", "recovered" *)
HistoryObjects ==
    UNION {[S -> DateCountObjects] : S \in SUBSET {"cases", "deaths", "recovered"}}

(* a vaccine body: no "timeline" key, or a list of {date, total} records *)
VaccineBodies ==
    {<<>>} \cup {[timeline |-> t] :
                   t \in SeqsUpTo([date : VaccineDateKeys, total : Counts], MaxLen)}

----------------------------------------------------------------------------
(* Responses the network may give during a render pass *)

Statuses == {200, 500}

K19 == <<12, 31, 19>>
K20a == <<1, 22, 20>>
K20b == <<12, 31, 20>>
K23 == <<3, 9, 23>>
K24 == <<1, 1, 24>>

(* cumulative cases and deaths; recovered falls back to 0 as upstream's does *)
SampleObject(keys, withRecovered) ==
    [f \in {"cases", "deaths"} \cup (IF withRecovered THEN {"recovered"} ELSE {}) |->
        [i \in 1..Len(keys) |->
            <<keys[i], CASE f = "cases"  -> i + 1
                         [] f = "deaths" -> i
                         [] OTHER        -> IF i = 1 THEN 1 ELSE 0>>]]

RenderKeySeqs == {<<K19>>, <<K20a, K20b, K23, K24>>}

(* the objects M served for history, and one without "cases" *)
RenderObjects ==
    {SampleObject(k, r) : k \in RenderKeySeqs, r \in BOOLEAN} \cup {<<>>}

HistoryBodies(country) ==
    IF IsGlobalArg(country) THEN RenderObjects
    ELSE {[timeline |-> m] : m \in RenderObjects} \cup {<<>>}

HistoryResponses(country) ==
    {NetworkFailure(<<>>)} \cup
    {Response(st, b) : st \in Statuses, b \in HistoryBodies(country)}

RenderVaccineBodies ==
    {<<>>,
     [timeline |-> <<>>],
     [timeline |-> <<[date |-> K24, total |-> 1]>>],
     [timeline |-> <<[date |-> K20b, total |-> 2], [date |-> K23, total |-> 1]>>]}

VaccineResponses ==
    {NetworkFailure(<<>>)} \cup
    {Response(st, b) : st \in Statuses, b \in RenderVaccineBodies}

CountryObject(name, info) ==
    [country |-> name, cases |-> 3, deaths |-> 1, recovered |-> 2, countryInfo |-> info]

SnapshotBodies ==
    {[list |-> TRUE, items |-> <<CountryObject("USA", [lat |-> 38, long |-> 97]),
                                 CountryObject("India", [long |-> 77])>>],
     [list |-> FALSE, items |-> <<>>]}

SnapshotResponses ==
    {NetworkFailure([list |-> FALSE, items |-> <<>>])} \cup
    {Response(st, b) : st \in Statuses, b \in SnapshotBodies}

----------------------------------------------------------------------------
(* st.cache_data(ttl=3600), lines 10, 41, 58 *)

TickSeconds == TTL \div 2

(* variant: one entry per function, whatever the arguments *)
CacheKey_ByFunction(fn, args) == <<fn, <<>>>>

(* the key of an entry: the function and its argument values *)
CacheKey(fn, args) == <<fn, args>>

(* an entry is served while younger than the TTL, counted from its store *)
Fresh(store, key, t) == key \in DOMAIN store /\ t - store[key].at < TTL

(* entries past their TTL are dropped, never served *)
Expire(store, t) == [k \in {x \in DOMAIN store : Fresh(store, x, t)} |-> store[k]]

Store(store, key, value, t) ==
    [k \in DOMAIN store \cup {key} |->
        IF k = key THEN [at |-> t, value |-> value] ELSE store[k]]

(* the log of returns, kept for the length of the TTL *)
Recent(log, t) == [k \in {x \in DOMAIN log : t - log[x] < TTL} |-> log[k]]

(* key was called at t and gave value *)
Serve(log, key, value, t) ==
    IF value.err = "ok"
    THEN [k \in DOMAIN log \cup {key} |-> IF k = key THEN t ELSE log[k]]
    ELSE log

(* the countries that hold a history or vaccine entry *)
CachedCountries(store) ==
    {k[2][1] : k \in {x \in DOMAIN store : x[1] # "load_country_data"}} \ {NoneArg}

HttpEntry(req, resp) ==
    [kind |-> req.kind, country |-> req.country,
     status |-> IF resp.net THEN resp.status ELSE 0]

(* One call, at time t, of a cached loader.  computed is what the body    *)
(* returns on the answer resp to its request req; the body runs only on a *)
(* miss.  An exception is not stored.                                      *)
CacheData(fn, args, req, resp, computed, t) ==
    LET key == CacheKey(fn, args)
        store == Expire(cache, t)
    IN  IF Fresh(store, key, t)
        THEN [value |-> store[key].value, hit |-> TRUE,
              cache |-> store, requests |-> <<>>,
              served |-> Serve(Recent(served, t), key, store[key].value, t)]
        ELSE [value |-> computed, hit |-> FALSE,
              cache |-> IF computed.err = "ok" THEN Store(store, key, computed, t)
                        ELSE store,
              requests |-> <<HttpEntry(req, resp)>>,
              served |-> Serve(Recent(served, t), key, computed, t)]

(* resp.json() is reached: the body ran (a miss) and the status check passed *)
Parsed(r, resp) == ~r.hit /\ resp.net /\ ~raise_for_status(resp)

CallEntry(fn, args, r) ==
    [fn |-> fn, args |-> args, hit |-> r.hit, err |-> r.value.err]

----------------------------------------------------------------------------
(* Presentation helpers *)

(* f"{n:,}": the decimal groups of three digits, most significant first *)
RECURSIVE FormatThousands(_)
FormatThousands(n) ==
    IF n < 1000 THEN <<n>>
    ELSE Append(FormatThousands(n \div 1000), n % 1000)

Card(n) == [na |-> FALSE, text |-> FormatThousands(n)]

NACard == [na |-> TRUE, text |-> <<>>]

NoCards == [confirmed |-> NACard, deaths |-> NACard, recovered |-> NACard, shown |-> FALSE]

NoVaccineView == [show |-> "unset", total |-> NACard]

(* variant: the choice is passed on as it is *)
use_country_Identity(choice) == choice

(* line 91 *)
use_country(choice) == IF choice # "Global" THEN choice ELSE NoneArg

(* variant: the selectbox offers the fixed range of years *)
available_years_FixedRange(t) == IF t.rows = <<>> THEN {} ELSE YearMin..YearMax

(* line 97: sorted(df["year"].unique()), as the set of options *)
available_years(t) == {t.rows[i].year : i \in 1..Len(t.rows)}

(* line 99: df[df["year"] == selected_year]; None matches no row *)
YearRows(rows, sel) ==
    SelectSeq(rows, LAMBDA r : sel # NoneCell /\ r.year = sel[1])

Column(rows, c) == {rows[i][c] : i \in 1..Len(rows)}

(* filtered["recovered"] without its None cells *)
NotNa(rows) == {rows[i].recovered[1] : i \in {j \in 1..Len(rows) : rows[j].recovered # NoneCell}}

(* line 90: the options of the country selectbox *)
Choices == {"Global"} \cup Range(CountryList)

----------------------------------------------------------------------------
(* Render pass: initial state (filled in below by the render actions) *)

RenderInit ==
    /\ now = 0
    /\ cache = <<>>
    /\ served = <<>>
    /\ passes = 0
    /\ pc = "idle"
    /\ calls = <<>>
    /\ http = <<>>
    /\ snapshot = NoTable
    /\ country_input = "Global"
    /\ js_history = <<>>
    /\ df = NoTable
    /\ selected_year = NoneCell
    /\ filtered = <<>>
    /\ cards = NoCards
    /\ y_cols = <<>>
    /\ js_vaccine = <<>>
    /\ df_vaccine = NoTable
    /\ vaccine_view = NoVaccineView

----------------------------------------------------------------------------
(* The render pass: the script, top to bottom *)

(* lines 67-87: an interaction, some time after the last pass, reruns the *)
(* script from its first line; the snapshot is loaded and mapped.  A pass *)
(* takes seconds: on the scale of the TTL the clock moves between passes. *)
(* The clock is read from the first pass on: that pass is at time 0.      *)
Rerun ==
    /\ pc \in {"idle", "done", "aborted"}
    /\ passes < MaxPasses
    /\ passes' = passes + 1
    /\ \E k \in 0..MaxTicks :
         /\ passes = 0 => k = 0
         /\ now + k * TickSeconds <= MaxTicks * TickSeconds
         /\ now' = now + k * TickSeconds
    /\ \E resp \in SnapshotResponses :
         LET r == CacheData("load_country_data", <<>>, SnapshotRequest, resp,
                            load_country_data(resp), now')
         IN  /\ cache' = r.cache
             /\ served' = r.served
             /\ http' = r.requests
             /\ calls' = <<CallEntry("load_country_data", <<>>, r)>>
             /\ snapshot' = r.value
             /\ pc' = IF r.value.err = "ok" THEN "sidebar" ELSE "aborted"
    /\ country_input' = "Global"
    /\ js_history' = <<>>
    /\ df' = NoTable
    /\ selected_year' = NoneCell
    /\ filtered' = <<>>
    /\ cards' = NoCards
    /\ y_cols' = <<>>
    /\ js_vaccine' = <<>>
    /\ df_vaccine' = NoTable
    /\ vaccine_view' = NoVaccineView
    /\ UNCHANGED studyVars

(* lines 90-94: the country selectbox, then the history load.  Any of the *)
(* nine options may be chosen; the exploration is cut where more than     *)
(* MaxCountries countries would hold cache entries at once.               *)
LoadHistory ==
    /\ pc = "sidebar"
    /\ \E choice \in Choices :
         \E resp \in HistoryResponses(use_country(choice)) :
           LET arg == use_country(choice)
               r == CacheData("load_covid_data", <<arg>>, HistoryRequest(arg), resp,
                              load_covid_data(arg, resp), now)
           IN  /\ Cardinality(CachedCountries(cache) \cup ({arg} \ {NoneArg}))
                     <= MaxCountries
               /\ country_input' = choice
               /\ cache' = r.cache
               /\ served' = r.served
               /\ http' = http \o r.requests
               /\ calls' = Append(calls, CallEntry("load_covid_data", <<arg>>, r))
               /\ js_history' = IF Parsed(r, resp) THEN <<resp.body>> ELSE <<>>
               /\ df' = r.value
               /\ pc' = IF r.value.err = "ok" THEN "year" ELSE "aborted"
    /\ UNCHANGED <<now, passes, snapshot, selected_year, filtered, cards, y_cols,
                   js_vaccine, df_vaccine, vaccine_view>>
    /\ UNCHANGED studyVars

(* variant: the selection overwrites the loaded table *)
SelectYear_InPlace ==
    /\ pc = "year"
    /\ IF available_years(df) = {}
       THEN selected_year' = NoneCell
       ELSE \E y \in available_years(df) : selected_year' = <<y>>
    /\ filtered' = YearRows(df.rows, selected_year')
    /\ df' = [df EXCEPT !.rows = filtered']
    /\ pc' = "metrics"
    /\ UNCHANGED <<now, cache, served, passes, calls, http, snapshot, country_input,
                   js_history, cards, y_cols, js_vaccine, df_vaccine,
                   vaccine_view>>
    /\ UNCHANGED studyVars

(* lines 97-99: the year selectbox offers the years of the table (None when *)
(* there is none) and the rows of the chosen year are selected into a new  *)
(* frame                                                                   *)
SelectYear ==
    /\ pc = "year"
    /\ IF available_years(df) = {}
       THEN selected_year' = NoneCell
       ELSE \E y \in available_years(df) : selected_year' = <<y>>
    /\ filtered' = YearRows(df.rows, selected_year')
    /\ pc' = "metrics"
    /\ UNCHANGED <<now, cache, served, passes, calls, http, snapshot, country_input,
                   js_history, df, cards, y_cols, js_vaccine, df_vaccine,
                   vaccine_view>>
    /\ UNCHANGED studyVars

(* lines 102-104 *)
total_confirmed(rows) == MaxOf(Column(rows, "confirmed"))

total_deaths(rows) == MaxOf(Column(rows, "deaths"))

(* variant: a missing recovered series counts as zero *)
total_recovered_ZeroFill(rows) ==
    IF rows # <<>> THEN <<MaxOf(NotNa(rows) \cup {0})>> ELSE NoneCell

total_recovered(rows) ==
    IF NotNa(rows) # {} THEN <<MaxOf(NotNa(rows))>> ELSE NoneCell

(* lines 107-109 *)
MetricCards(rows) ==
    [confirmed |-> Card(total_confirmed(rows)),
     deaths    |-> Card(total_deaths(rows)),
     recovered |-> IF total_recovered(rows) # NoneCell
                   THEN Card(total_recovered(rows)[1]) ELSE NACard,
     shown     |-> TRUE]

(* line 112 *)
TrendColumns(rows) ==
    <<"confirmed", "deaths">> \o
    (IF total_recovered(rows) # NoneCell THEN <<"recovered">> ELSE <<>>)

(* lines 102-120: the metric cards and the trend chart.  With no row      *)
(* selected, max() is NaN and int(NaN) raises ValueError at line 102.     *)
Metrics ==
    /\ pc = "metrics"
    /\ IF filtered = <<>>
       THEN /\ pc' = "aborted"
            /\ UNCHANGED <<cards, y_cols>>
       ELSE /\ cards' = MetricCards(filtered)
            /\ y_cols' = TrendColumns(filtered)
            /\ pc' = "vaccine"
    /\ UNCHANGED <<now, cache, served, passes, calls, http, snapshot, country_input,
                   js_history, df, selected_year, filtered, js_vaccine,
                   df_vaccine, vaccine_view>>
    /\ UNCHANGED studyVars

(* lines 125-138, given the loaded vaccine table *)
VaccineView(t) ==
    IF t.rows # <<>>
    THEN [show |-> "chart", total |-> Card(MaxOf(Column(t.rows, "total")))]
    ELSE [show |-> "warning", total |-> NACard]

(* lines 123-140 *)
VaccineSection ==
    /\ pc = "vaccine"
    /\ IF use_country(country_input) # NoneArg
       THEN \E resp \in VaccineResponses :
              LET arg == use_country(country_input)
                  r == CacheData("load_vaccine_data", <<arg>>, VaccineRequest(arg),
                                 resp, load_vaccine_data(arg, resp), now)
              IN  /\ cache' = r.cache
                  /\ served' = r.served
                  /\ http' = http \o r.requests
                  /\ calls' = Append(calls, CallEntry("load_vaccine_data", <<arg>>, r))
                  /\ js_vaccine' = IF Parsed(r, resp) THEN <<resp.body>> ELSE <<>>
                  /\ df_vaccine' = r.value
                  /\ vaccine_view' = IF r.value.err = "ok" THEN VaccineView(r.value)
                                     ELSE vaccine_view
                  /\ pc' = IF r.value.err = "ok" THEN "done" ELSE "aborted"
       ELSE /\ vaccine_view' = [show |-> "info", total |-> NACard]
            /\ pc' = "done"
            /\ UNCHANGED <<cache, served, http, calls, js_vaccine, df_vaccine>>
    /\ UNCHANGED <<now, passes, snapshot, country_input, js_history, df,
                   selected_year,
                   filtered, cards, y_cols>>
    /\ UNCHANGED studyVars

----------------------------------------------------------------------------
(* Loader study: the loaders applied to every bounded payload, with a      *)
(* successful (200) response, outside any render pass.                     *)

StudyIdle ==
    /\ payload = <<>>
    /\ vax_payload = <<>>
    /\ out_global = NoTable
    /\ out_country = NoTable
    /\ out_vaccine = NoTable
    /\ bpc = "off"

LoaderInit ==
    /\ RenderInit
    /\ out_global = NoTable
    /\ out_country = NoTable
    /\ out_vaccine = NoTable
    /\ \/ bpc = "history" /\ payload \in HistoryObjects /\ vax_payload = <<>>
       \/ bpc = "vaccine" /\ payload = <<>> /\ vax_payload \in VaccineBodies

StudyGlobal ==
    /\ bpc = "history"
    /\ \E g \in {NoneArg, "global", "gLoBaL"} :
         out_global' = load_covid_data(g, Response(200, payload))
    /\ bpc' = "country"
    /\ UNCHANGED <<payload, vax_payload, out_country, out_vaccine>>
    /\ UNCHANGED renderVars

StudyCountry ==
    /\ bpc = "country"
    /\ \E c \in Range(CountryList) :
         out_country' = load_covid_data(c, Response(200, [timeline |-> payload]))
    /\ bpc' = "done"
    /\ UNCHANGED <<payload, vax_payload, out_global, out_vaccine>>
    /\ UNCHANGED renderVars

StudyVaccine ==
    /\ bpc = "vaccine"
    /\ \E c \in Range(CountryList) :
         out_vaccine' = load_vaccine_data(c, Response(200, vax_payload))
    /\ bpc' = "done"
    /\ UNCHANGED <<payload, vax_payload, out_global, out_country>>
    /\ UNCHANGED renderVars

LoaderNext == StudyGlobal \/ StudyCountry \/ StudyVaccine

LoaderSpec == LoaderInit /\ [][LoaderNext]_vars

----------------------------------------------------------------------------
(* The dashboard: render passes over a shared cache and a running clock *)

Init == RenderInit /\ StudyIdle

Next == Rerun \/ LoadHistory \/ SelectYear \/ Metrics \/ VaccineSection

Spec == Init /\ [][Next]_vars

----------------------------------------------------------------------------
(* Properties of the loaders, checked under LoaderSpec *)

(* the calendar date an upstream key "m/d/yy" of this century names *)
DateOfKey(k) == [year |-> 2000 + k[3], month |-> k[1], day |-> k[2]]

KeyInRange(k) == 2000 + k[3] \in {2020, 2021, 2022, 2023}

RowYearsInRange(t) ==
    \A i \in 1..Len(t.rows) : t.rows[i].year \in {2020, 2021, 2022, 2023}

(* the rows of t carry exactly the in-range dates of keys, in their order *)
RetainsInRange(t, keys) ==
    LET kept == SelectSeq(keys, KeyInRange)
    IN  /\ Len(t.rows) = Len(kept)
        /\ \A i \in 1..Len(kept) : t.rows[i].date = DateOfKey(kept[i])

TimelineOf(body) == IF "timeline" \in DOMAIN body THEN body["timeline"] ELSE <<>>

\* C3: every row of a table returned by load_covid_data (global or country
\* branch) or by load_vaccine_data has its year in {2020, 2021, 2022, 2023},
\* and every input date whose year lies in that range is retained.
C3_YearRange ==
    /\ out_global.err = "ok" =>
         /\ RowYearsInRange(out_global)
         /\ RetainsInRange(out_global, DictKeys(payload["cases"]))
    /\ out_country.err = "ok" =>
         /\ RowYearsInRange(out_country)
         /\ RetainsInRange(out_country, DictKeys(payload["cases"]))
    /\ out_vaccine.err = "ok" =>
         /\ RowYearsInRange(out_vaccine)
         /\ RetainsInRange(out_vaccine,
                           [i \in 1..Len(TimelineOf(vax_payload)) |->
                               TimelineOf(vax_payload)[i].date])

\* C3 witness: a country history load that kept a row and dropped another
C3_Witness ==
    /\ bpc = "done"
    /\ out_country.err = "ok"
    /\ Len(out_country.rows) >= 1
    /\ Len(out_country.rows) < Len(payload["cases"])

HistoryColumns == {"date", "confirmed", "deaths", "recovered", "year"}

\* C7: for any object M of cases/deaths/recovered series, the global branch
\* given M at the top level and the country branch given M under "timeline"
\* end alike: the same table (columns date, confirmed, deaths, recovered,
\* year and the same rows) or the same exception, also without "recovered".
C7_SameShape ==
    (bpc = "done" /\ vax_payload = <<>>) =>
        /\ out_global = out_country
        /\ out_global.err = "ok" => out_global.cols = HistoryColumns

\* C7 witness: both branches built a non-empty table from an M without
\* "recovered"
C7_Witness ==
    /\ bpc = "done"
    /\ "cases" \in DOMAIN payload
    /\ "recovered" \notin DOMAIN payload
    /\ out_global.err = "ok"
    /\ out_country.err = "ok"
    /\ out_country.rows # <<>>

KeySet(d) == {d[i][1] : i \in 1..Len(d)}

(* d[k] of a date->count object *)
Lookup(d, k) == d[CHOOSE i \in 1..Len(d) : d[i][1] = k][2]

SameDateKeys(m) ==
    /\ {"cases", "deaths"} \subseteq DOMAIN m
    /\ \A f \in DOMAIN m : KeySet(m[f]) = KeySet(m["cases"])

(* t has one row per retained date key of m, holding m's values for it *)
RowsJoinByDate(t, m) ==
    /\ t.err = "ok"
    /\ RetainsInRange(t, DictKeys(m["cases"]))
    /\ \A i \in 1..Len(t.rows) :
         \E k \in KeySet(m["cases"]) :
           /\ t.rows[i].date = DateOfKey(k)
           /\ t.rows[i].confirmed = Lookup(m["cases"], k)
           /\ t.rows[i].deaths = Lookup(m["deaths"], k)
           /\ t.rows[i].recovered = IF "recovered" \in DOMAIN m
                                    THEN <<Lookup(m["recovered"], k)>> ELSE NoneCell

\* C8: for a history payload whose cases and deaths series (and recovered,
\* when present) have the same set of date keys, load_covid_data yields one
\* row per date key the year filter retains, and each row's confirmed, deaths
\* and recovered are the values those series hold for that row's date.
C8_RowsHoldValuesOfTheirDate ==
    (bpc = "done" /\ SameDateKeys(payload)) =>
        /\ RowsJoinByDate(out_global, payload)
        /\ RowsJoinByDate(out_country, payload)

----------------------------------------------------------------------------
(* Properties of the render pass, checked under Spec *)

NonSuccess(h) == h.status = 0 \/ h.status < 200 \/ h.status >= 300

RequestOf(fn, args) ==
    CASE fn = "load_country_data" -> SnapshotRequest
      [] fn = "load_covid_data"   -> HistoryRequest(args[1])
      [] OTHER                    -> VaccineRequest(args[1])

(* a step in which a cached loader is called, the call, and what it gave *)
CallStep == passes' # passes \/ Len(calls') > Len(calls)

ThisCall == calls'[Len(calls')]

Issued == IF passes' # passes THEN http' ELSE SubSeq(http', Len(http) + 1, Len(http'))

Returned ==
    CASE ThisCall.fn = "load_country_data" -> snapshot'
      [] ThisCall.fn = "load_covid_data"   -> df'
      [] OTHER                             -> df_vaccine'

ThisKey == <<ThisCall.fn, ThisCall.args>>

(* the call of the step issued one request, that of its own endpoint *)
IssuedOwnRequest ==
    /\ Len(Issued) = 1
    /\ Issued[1].kind = RequestOf(ThisCall.fn, ThisCall.args).kind
    /\ Issued[1].country = RequestOf(ThisCall.fn, ThisCall.args).country

(* entries of other (function, arguments) pairs are not touched *)
OtherEntriesKept ==
    \A k \in DOMAIN cache' \ {ThisKey} : k \in DOMAIN cache /\ cache'[k] = cache[k]

C1_AsStated_Step ==
    CallStep =>
        /\ IF ThisKey \in DOMAIN served /\ now' - served[ThisKey] < 3600
           THEN /\ ThisCall.hit
                /\ Issued = <<>>
                /\ ThisKey \in DOMAIN cache
                /\ Returned = cache[ThisKey].value
           ELSE /\ ~ThisCall.hit
                /\ IssuedOwnRequest
        /\ OtherEntriesKept

\* C1 as stated: every call of a cached loader whose (function, arguments)
\* pair was called less than 3600 seconds before by a call that returned a
\* table (fetched or served from the cache) returns the previously computed
\* table and issues no HTTP request; any other call issues one request of
\* its own endpoint; entries of other pairs are never returned nor changed.
C1_AsStated == [][C1_AsStated_Step]_vars

C1_Step ==
    IF ~CallStep THEN cache' = cache /\ http' = http
    ELSE /\ IF ThisKey \in DOMAIN cache /\ now' - cache[ThisKey].at < 3600
            THEN /\ ThisCall.hit
                 /\ Issued = <<>>
                 /\ Returned = cache[ThisKey].value
                 /\ ThisKey \in DOMAIN cache' /\ cache'[ThisKey] = cache[ThisKey]
            ELSE /\ ~ThisCall.hit
                 /\ IssuedOwnRequest
                 /\ IF ThisCall.err = "ok"
                    THEN /\ ThisKey \in DOMAIN cache'
                         /\ cache'[ThisKey] = [at |-> now', value |-> Returned]
                    ELSE ThisKey \notin DOMAIN cache'
         /\ OtherEntriesKept

\* C1 amended: every call of a cached loader whose (function, arguments)
\* pair has an entry fetched less than 3600 seconds before returns that
\* entry's table, issues no HTTP request and leaves the entry and its age as
\* they are (a hit does not renew it); a call with no entry for its pair, or
\* with one fetched 3600 seconds before or earlier, issues exactly one
\* request, that of its own endpoint and country, and its table (not its
\* exception) becomes the pair's entry; entries of other pairs are never
\* returned nor changed.
C1_Amended == [][C1_Step]_vars

\* C1 witness: a third pass, 3600 seconds after the first, in which the
\* history of a country is fetched again (and the fetch fails) although the
\* same call returned a table 1800 seconds before: that call was a hit on
\* the entry fetched in the first pass, which has now expired
C1_Witness ==
    /\ passes = 3
    /\ now = 3600
    /\ Len(calls) = 2
    /\ calls[2].fn = "load_covid_data"
    /\ calls[2].args = <<"India">>
    /\ ~calls[2].hit
    /\ calls[2].err # "ok"
    /\ <<"load_covid_data", <<"India">>>> \in DOMAIN served
    /\ served[<<"load_covid_data", <<"India">>>>] = 1800
    /\ <<"load_covid_data", <<"India">>>> \notin DOMAIN cache
    /\ \E i \in 1..Len(http) :
         http[i].kind = "country-history" /\ http[i].country = "India"

LastTable ==
    CASE calls[Len(calls)].fn = "load_country_data" -> snapshot
      [] calls[Len(calls)].fn = "load_covid_data"   -> df
      [] OTHER                                      -> df_vaccine

\* C2: for each of the four request kinds, a request answered with a
\* non-success status or not answered at all is the last of its pass: the
\* pass is aborted, the call returned no table and left no cache entry, and
\* the request was not repeated.
C2_FailedRequestAborts ==
    \A i \in 1..Len(http) :
        NonSuccess(http[i]) =>
            /\ pc = "aborted"
            /\ i = Len(http)
            /\ ~calls[Len(calls)].hit
            /\ calls[Len(calls)].err # "ok"
            /\ LastTable.err # "ok"
            /\ <<calls[Len(calls)].fn, calls[Len(calls)].args>> \notin DOMAIN cache
            /\ \A j \in 1..Len(http) : http[j].kind = http[i].kind => j = i

Series(body) == IF country_input = "Global" THEN body ELSE TimelineOf(body)

RecoveredAbsent ==
    /\ js_history # <<>>
    /\ {"cases", "deaths"} \subseteq DOMAIN Series(js_history[1])
    /\ "recovered" \notin DOMAIN Series(js_history[1])
    /\ Len(Series(js_history[1])["deaths"]) = Len(Series(js_history[1])["cases"])

PastCards == pc \in {"vaccine", "done", "aborted"}

NoRecoveredValue ==
    /\ df.err = "ok"
    /\ \A i \in 1..Len(df.rows) : df.rows[i].recovered = NoneCell

RecoveredShownUnavailable ==
    /\ cards.shown
    /\ cards.recovered.na
    /\ ~cards.confirmed.na
    /\ ~cards.deaths.na
    /\ y_cols = <<"confirmed", "deaths">>

\* C4 as stated: whenever "recovered" is absent from the history response of
\* a pass, the load raises nothing, no row holds a recovered value, and the
\* pass shows "N/A" on the recovered card, no recovered line, and the
\* confirmed and deaths cards and lines.
C4_AsStated ==
    RecoveredAbsent => (NoRecoveredValue /\ (PastCards => RecoveredShownUnavailable))

\* C4 amended: whenever "recovered" is absent from the history response of a
\* pass, the load raises nothing and no row holds a recovered value; and if
\* the table has at least one row, the pass shows "N/A" on the recovered
\* card, no recovered line, and the confirmed and deaths cards and lines
\* (with no row, the pass stops at line 102 before any card).
C4_Amended ==
    RecoveredAbsent =>
        /\ NoRecoveredValue
        /\ (df.rows # <<>> /\ PastCards) => RecoveredShownUnavailable
        /\ (df.rows = <<>> /\ PastCards) => (pc = "aborted" /\ ~cards.shown)

\* C4 witness: a completed pass over a table built without "recovered"
C4_Witness ==
    /\ RecoveredAbsent
    /\ df.rows # <<>>
    /\ pc = "done"
    /\ cards.recovered.na
    /\ ~cards.confirmed.na

\* C5: when the vaccine response of a pass has no timeline entries (no
\* "timeline" key, or an empty list), load_vaccine_data returns the empty
\* table with columns {date, total}, the pass completes and shows the
\* warning, no metric and no chart; and no other fetch outcome than success
\* lets the pass go on: a request that failed has aborted it.
C5_EmptyVaccineOnlyDegradation ==
    /\ (js_vaccine # <<>> /\ TimelineOf(js_vaccine[1]) = <<>>) =>
          /\ df_vaccine = Table(<<>>, {"date", "total"})
          /\ pc = "done"
          /\ vaccine_view.show = "warning"
          /\ vaccine_view.total.na
    /\ \A i \in 1..Len(http) : NonSuccess(http[i]) => pc = "aborted"

HistoryLoaded == Len(calls) >= 2

VaccineLoaded == Len(calls) >= 3

(* the request the i-th call of the pass issued, when it missed *)
RequestOfCall(i) == http[Cardinality({j \in 1..i : ~calls[j].hit})]

(* what a selection makes the loads of its pass be: "Global" loads history *)
(* with no country (the global-history endpoint) and no vaccine data; a   *)
(* country loads history with that country (the country-history endpoint  *)
(* for it) and then, after it, vaccine data for the same country          *)
SelectionDrivesLoads ==
    /\ HistoryLoaded =>
         /\ calls[2].fn = "load_covid_data"
         /\ calls[2].args = <<IF country_input = "Global" THEN NoneArg ELSE country_input>>
         /\ ~calls[2].hit =>
              RequestOfCall(2) \in
                 {[kind |-> IF country_input = "Global"
                            THEN "global-history" ELSE "country-history",
                   country |-> IF country_input = "Global"
                               THEN NoneArg ELSE country_input,
                   status |-> st] : st \in {0} \cup Statuses}
    /\ country_input = "Global" =>
         /\ ~VaccineLoaded
         /\ \A i \in 1..Len(http) : http[i].kind # "country-vaccine"
    /\ (pc = "done" /\ country_input # "Global") => VaccineLoaded
    /\ VaccineLoaded =>
         /\ Len(calls) = 3
         /\ calls[3].fn = "load_vaccine_data"
         /\ calls[3].args = <<country_input>>
         /\ country_input \in Range(CountryList)
         /\ ~calls[3].hit =>
              /\ RequestOfCall(3).kind = "country-vaccine"
              /\ RequestOfCall(3).country = country_input

(* the pass has gone past the country selection, or has ended *)
PastSelection == pc \in {"year", "metrics", "vaccine", "done", "aborted"}

\* C6 as stated: the history load happens in every pass, and the selection
\* drives the loads: "Global" loads global history and no vaccine data, a
\* country loads its own history and then its own vaccine data.
C6_AsStated ==
    /\ PastSelection => HistoryLoaded
    /\ SelectionDrivesLoads

\* C6 amended: the history load happens in every pass whose snapshot load
\* (line 67) returned a table; a pass whose snapshot load raised has ended
\* there, with the snapshot call as its only call; and the selection drives
\* the loads: "Global" loads global history and no vaccine data, a country
\* loads its own history and then its own vaccine data.
C6_Amended ==
    /\ (PastSelection /\ snapshot.err = "ok") => HistoryLoaded
    /\ (passes > 0 /\ snapshot.err # "ok") =>
         /\ pc = "aborted"
         /\ Len(calls) = 1
         /\ calls[1].fn = "load_country_data"
         /\ \A i \in 1..Len(http) : http[i].kind = "country-snapshot-list"
    /\ SelectionDrivesLoads

\* C6 witness: a completed pass for the last country of the list that
\* fetched its history and then its vaccine data
C6_Witness ==
    /\ pc = "done"
    /\ country_input = "Japan"
    /\ Len(calls) = 3
    /\ ~calls[2].hit
    /\ ~calls[3].hit
    /\ Len(http) >= 2
    /\ http[Len(http) - 1].kind = "country-history"
    /\ http[Len(http) - 1].country = "Japan"
    /\ http[Len(http)].kind = "country-vaccine"
    /\ http[Len(http)].country = "Japan"

C9_Step ==
    /\ (passes' = passes /\ df.err = "ok") => df' = df
    /\ \A k \in DOMAIN cache \cap DOMAIN cache' :
         cache'[k].at = cache[k].at => cache'[k].value = cache[k].value
    /\ (pc = "sidebar" /\ calls'[Len(calls')].hit) =>
         df' = cache[<<"load_covid_data", calls'[Len(calls')].args>>].value

\* C9: the year selection, the metrics and the charts of a pass leave the
\* loaded history table as it is; a cache entry keeps the table it was
\* stored with; and a history call served from the cache returns that
\* table, whatever years were selected since.
C9_NoInPlaceMutation == [][C9_Step]_vars

\* C9 witness: a second pass served from the cache whose year selection
\* kept fewer rows than the loaded table has
C9_Witness ==
    /\ passes = 2
    /\ pc = "metrics"
    /\ calls[2].hit
    /\ filtered # <<>>
    /\ Len(filtered) < Len(df.rows)

YearRowsOf(t, y) == {i \in 1..Len(t.rows) : t.rows[i].year = y}

MaxInYear(t, y, c) ==
    CHOOSE m \in {t.rows[i][c] : i \in YearRowsOf(t, y)} :
        \A i \in YearRowsOf(t, y) : t.rows[i][c] <= m

\* C10: in a pass whose loaded history table is non-empty, once the year is
\* selected it is a year of the table, the filtered table holds exactly the
\* rows of that year (at least one), and the confirmed and deaths cards show
\* the maximum of their column over those rows.
C10_YearAndCards ==
    (df.err = "ok" /\ df.rows # <<>> /\ pc \in {"metrics", "vaccine", "done", "aborted"}) =>
        /\ selected_year # NoneCell
        /\ YearRowsOf(df, selected_year[1]) # {}
        /\ filtered # <<>>
        /\ Len(filtered) = Cardinality(YearRowsOf(df, selected_year[1]))
        /\ \A i \in 1..Len(filtered) : filtered[i].year = selected_year[1]
        /\ pc # "metrics" =>
             /\ cards.shown
             /\ cards.confirmed = [na |-> FALSE,
                                   text |-> <<MaxInYear(df, selected_year[1], "confirmed")>>]
             /\ cards.deaths = [na |-> FALSE,
                                text |-> <<MaxInYear(df, selected_year[1], "deaths")>>]

\* C10 witness: cards shown for the first of two years of a table, whose
\* maximum is below that of the whole table
C10_Witness ==
    /\ pc = "done"
    /\ df.err = "ok"
    /\ Len(filtered) >= 2
    /\ Len(filtered) < Len(df.rows)
    /\ cards.shown
    /\ \E i \in 1..Len(df.rows) :
         <<df.rows[i].confirmed>> # cards.confirmed.text
         /\ df.rows[i].confirmed > cards.confirmed.text[1]

====
